---- MODULE Spec2Model ----
(***************************************************************************)
(* A model of the economy plugin of src/SimpleEconomy/src/Economy.go: the  *)
(* account map e.playerData, the account objects it points to, the ranking *)
(* slice e.topPlayers, the configuration, the players.json document and    *)
(* the sync.RWMutex e.mutex, driven by goroutines that call the ledger     *)
(* operations and the economy/top commands.                                *)
(*                                                                         *)
(* Account objects live in a heap and are referred to by identity, as the  *)
(* *PlayerAccount pointers of the code are: a goroutine that obtained a    *)
(* pointer from getAccount keeps using that object even when the map entry *)
(* has been replaced since.  float64 amounts are the integers plus NaN.    *)
(***************************************************************************)
EXTENDS Integers, Sequences, FiniteSets, TLC

\* ------------------------------------------------------------------ bounds

\* Number of goroutines that call into the plugin concurrently.
NumProcs == 2

\* Total number of calls the goroutines make in one behaviour.
MaxCalls == 3

\* Only the first MaxOverlapping calls of a behaviour may start while another
\* call is in flight; the later ones start when every goroutine is idle.
MaxOverlapping == 2

\* Number of account objects that can be live at once.
MaxObjects == 6

Procs == 1..NumProcs

ObjIds == 1..MaxObjects

\* ------------------------------------------------------------- float64

\* The float64 NaN that strconv.ParseFloat returns for "NaN", as a value of
\* its own that the comparisons and the arithmetic below recognise; every
\* other amount of the model is an integer below it.
NaN == 999999999

IsNaN(x) == x = NaN

\* IEEE comparisons: any comparison with NaN is false.
Lt(a, b) == ~IsNaN(a) /\ ~IsNaN(b) /\ a < b

Gt(a, b) == Lt(b, a)

Le(a, b) == ~IsNaN(a) /\ ~IsNaN(b) /\ a <= b

Ge(a, b) == Le(b, a)

\* IEEE addition and subtraction: NaN is absorbing.
Add(a, b) == IF IsNaN(a) \/ IsNaN(b) THEN NaN ELSE a + b

Sub(a, b) == IF IsNaN(a) \/ IsNaN(b) THEN NaN ELSE a - b

\* ------------------------------------------------------------- inputs

\* Usernames the callers pass; "Alice" and "alice" differ only in case.
Usernames == {"Alice", "alice", "Bob"}

\* strings.ToLower on the usernames of the model.
ToLower(u) ==
    CASE u = "Alice" -> "alice"
      [] u = "Bob" -> "bob"
      [] u = "TestPlayer" -> "testplayer"
      [] u = "Player2" -> "player2"
      [] OTHER -> u

\* Amounts the callers pass.
Amounts == {0 - 10, 0, 10, 1000000, NaN}

\* The calls of main's demo, lines 528-531: the balance of TestPlayer, and the
\* two credits.
DemoBalances == {"TestPlayer"}

DemoCredits == {<<"TestPlayer", 500>>, <<"Player2", 2000>>}

\* TransactionType, lines 45-50.
ADD == 0

SUBTRACT == 1

SET == 2

TRANSFER == 3

\* The configuration NewEconomyPlugin builds.
DefaultConfig ==
    [DefaultBalance |-> 1000, MaxBalance |-> 1000000,
     EnableLogging |-> TRUE, TopPlayersLimit |-> 10]

\* A config.json an administrator wrote: a lower ceiling, a ranking of one.
AdminConfig ==
    [DefaultBalance |-> 1000, MaxBalance |-> 1005,
     EnableLogging |-> FALSE, TopPlayersLimit |-> 1]

\* What loadConfig can find at config.json: no file, or one of the documents.
NoConfigFile == [exists |-> FALSE, config |-> DefaultConfig]

ConfigFiles ==
    {NoConfigFile,
     [exists |-> TRUE, config |-> DefaultConfig],
     [exists |-> TRUE, config |-> AdminConfig]}

\* The empty map.
EmptyMap == [k \in {} |-> 0]

\* players.json: absent, or a JSON object from canonical username to account.
NoFile == [exists |-> FALSE, accounts |-> EmptyMap]

StoredAccount(u) ==
    [Username |-> u, Balance |-> 1000, TotalEarned |-> 1000, TotalSpent |-> 0]

\* The documents the plugin can find at players.json when it is enabled.
InitialFiles ==
    {NoFile,
     [exists |-> TRUE, accounts |-> [k \in {"alice"} |-> StoredAccount("Alice")]],
     [exists |-> TRUE,
      accounts |-> [k \in {"alice", "bob"} |->
                       IF k = "alice" THEN StoredAccount("Alice")
                       ELSE StoredAccount("Bob")]]}

\* ------------------------------------------------------------- state

VARIABLES
    enabled,      \* OnEnable has run
    config,       \* *e.config
    playerData,   \* e.playerData: canonical username -> account object
    heap,         \* the live PlayerAccount objects, by identity
    topPlayers,   \* e.topPlayers: a sequence of account objects
    playersFile,  \* the players.json document
    txlog,        \* the lines of transactions.log
    writer,       \* e.mutex: the goroutine holding the write lock, or 0
    readers,      \* e.mutex: the goroutines holding a read lock
    pc,           \* each goroutine's position
    frame,        \* each goroutine's call: arguments, locals, result
    nCalls,       \* calls made so far
    saved         \* history: the account map when a save was called, for as
                  \* long as nothing but a reload has been called since

vars ==
    <<enabled, config, playerData, heap, topPlayers, playersFile, txlog,
      writer, readers, pc, frame, nCalls, saved>>

\* A goroutine that is not in a call.  created is history: the call has
\* inserted an account.
IdleFrame ==
    [op |-> "", username |-> "", to |-> "", amount |-> 0,
     stage |-> 0, creating |-> FALSE, created |-> FALSE,
     account |-> 0, toAccount |-> 0,
     players |-> <<>>, data |-> NoFile,
     visited |-> {}, value |-> 0, top |-> <<>>,
     result |-> "", cause |-> ""]

\* ------------------------------------------------------------- helpers

\* What the store holds for each canonical username: the amounts of the
\* account the map points to.
StoreValues(pd, h) ==
    [k \in DOMAIN pd |->
        [Balance |-> h[pd[k]].Balance, TotalEarned |-> h[pd[k]].TotalEarned,
         TotalSpent |-> h[pd[k]].TotalSpent]]

NoSnapshot == [valid |-> FALSE, accounts |-> EmptyMap]

Range(f) == {f[x] : x \in DOMAIN f}

Min(a, b) == IF a < b THEN a ELSE b

\* The objects some pointer of the program still refers to.
Roots(pd, tp, fr) ==
    Range(pd) \cup Range(tp)
    \cup UNION {({fr[p].account, fr[p].toAccount} \ {0}) \cup Range(fr[p].players)
                : p \in Procs}

\* The garbage collector: objects no pointer refers to are gone.
Collect(h, pd, tp, fr) ==
    [o \in (DOMAIN h) \cap Roots(pd, tp, fr) |-> h[o]]

\* A heap with the new objects objs (identity -> account) added.
Allocate(h, objs) == [o \in (DOMAIN h) \cup (DOMAIN objs) |->
                         IF o \in DOMAIN objs THEN objs[o] ELSE h[o]]

\* The n smallest identities not in use, as a sequence.
RECURSIVE FreshIds(_, _)
FreshIds(used, n) ==
    IF n = 0 THEN <<>>
    ELSE LET free == ObjIds \ used
             o == CHOOSE x \in free : \A y \in free : x <= y
         IN  <<o>> \o FreshIds(used \cup {o}, n - 1)

\* Every order in which a range over the set S can visit it.
Orders(S) ==
    {s \in [1..Cardinality(S) -> S] : \A i, j \in DOMAIN s : i # j => s[i] # s[j]}

\* A map with key k set to v.
MapSet(m, k, v) == [x \in (DOMAIN m) \cup {k} |-> IF x = k THEN v ELSE m[x]]

\* The sequence of the elements of a set of strings or numbers, in some order.
RECURSIVE SeqOf(_)
SeqOf(S) == IF S = {} THEN <<>>
            ELSE LET x == CHOOSE y \in S : TRUE IN <<x>> \o SeqOf(S \ {x})

\* ------------------------------------------------------------- the lock

\* RWMutex.RLock returns once no goroutine holds the write lock.
CanRLock == writer = 0

\* RWMutex.Lock returns once no goroutine holds the lock in either mode.
CanLock == writer = 0 /\ readers = {}

\* ------------------------------------------------------------- ranking

\* The inner loop of updateTopPlayers' bubble sort, from index j up to last.
RECURSIVE BubblePass(_, _, _, _)
BubblePass(h, s, j, last) ==
    IF j > last THEN s
    ELSE BubblePass(h,
                    IF Lt(h[s[j]].Balance, h[s[j + 1]].Balance)
                    THEN [s EXCEPT ![j] = s[j + 1], ![j + 1] = s[j]]
                    ELSE s,
                    j + 1, last)

\* The outer loop: pass i (from 0) compares the indices 1 .. Len(s)-1-i.
RECURSIVE BubbleSort(_, _, _)
BubbleSort(h, s, i) ==
    IF i >= Len(s) THEN s
    ELSE BubbleSort(h, BubblePass(h, s, 1, Len(s) - 1 - i), i + 1)

\* players[:limit] with limit = min(TopPlayersLimit, len(players)).
Truncate(players, limit) == SubSeq(players, 1, Min(limit, Len(players)))

\* ------------------------------------------------------------- startup

Init ==
    /\ enabled = FALSE
    /\ config = DefaultConfig
    /\ playerData = EmptyMap
    /\ heap = EmptyMap
    /\ topPlayers = <<>>
    /\ playersFile \in InitialFiles
    /\ txlog = <<>>
    /\ writer = 0
    /\ readers = {}
    /\ pc = [p \in Procs |-> "idle"]
    /\ frame = [p \in Procs |-> IdleFrame]
    /\ nCalls = 0
    /\ saved = NoSnapshot

\* loadConfig: a missing file is written from the current configuration and
\* leaves it as it is; a document replaces the fields it names (all of them).
loadConfig(cfg, file) == IF file.exists THEN file.config ELSE cfg

\* json.Unmarshal that leaves an entry the map already has as it is and only
\* adds the keys the map does not have.
Unmarshal_KeepExisting(pd, ids, doc) ==
    LET keys == SeqOf(DOMAIN doc)
    IN  [k \in (DOMAIN pd) \cup (DOMAIN doc) |->
            IF k \in DOMAIN pd
            THEN pd[k]
            ELSE ids[CHOOSE i \in 1..Len(keys) : keys[i] = k]]

\* json.Unmarshal into a map made anew for the document: the entries the
\* document does not name are gone.
Unmarshal_IntoNewMap(pd, ids, doc) ==
    LET keys == SeqOf(DOMAIN doc)
    IN  [k \in DOMAIN doc |-> ids[CHOOSE i \in 1..Len(keys) : keys[i] = k]]

\* json.Unmarshal(data, &e.playerData): the existing map is reused and its
\* entries kept; every key of the document is set to a newly allocated account.
Unmarshal(pd, ids, doc) ==
    LET keys == SeqOf(DOMAIN doc)
    IN  [k \in (DOMAIN pd) \cup (DOMAIN doc) |->
            IF k \in DOMAIN doc
            THEN ids[CHOOSE i \in 1..Len(keys) : keys[i] = k]
            ELSE pd[k]]

\* The objects Unmarshal allocates: one per key of the document.
Unmarshalled(ids, doc) ==
    LET keys == SeqOf(DOMAIN doc)
    IN  [o \in Range(ids) |-> doc[keys[CHOOSE i \in 1..Len(ids) : ids[i] = o]]]

\* json.MarshalIndent(e.playerData): the document of the whole map; it fails
\* (UnsupportedValueError) when a float64 field is NaN.
MarshalFails(pd, h) ==
    \E k \in DOMAIN pd :
        IsNaN(h[pd[k]].Balance) \/ IsNaN(h[pd[k]].TotalEarned)
        \/ IsNaN(h[pd[k]].TotalSpent)

Marshal(pd, h) == [exists |-> TRUE, accounts |-> [k \in DOMAIN pd |-> h[pd[k]]]]

\* OnEnable, on the main goroutine before any command runs: loadConfig, then
\* loadPlayerData (which returns early when players.json does not exist).
OnEnable ==
    /\ ~enabled
    /\ enabled' = TRUE
    /\ \E file \in ConfigFiles :
          /\ config' = loadConfig(config, file)
          /\ IF playersFile.exists
             THEN LET doc == playersFile.accounts
                      ids == FreshIds(DOMAIN heap, Cardinality(DOMAIN doc))
                      pd == Unmarshal(playerData, ids, doc)
                      h == Allocate(heap, Unmarshalled(ids, doc))
                  IN  /\ playerData' = pd
                      /\ \E order \in Orders(DOMAIN pd) :
                            topPlayers' =
                                Truncate(BubbleSort(h, [i \in DOMAIN order |-> pd[order[i]]], 0),
                                         config'.TopPlayersLimit)
                      /\ heap' = Collect(h, pd, topPlayers', frame)
             ELSE UNCHANGED <<playerData, heap, topPlayers>>
    /\ UNCHANGED <<playersFile, txlog, writer, readers, pc, frame, nCalls, saved>>

\* ------------------------------------------------------------- calls

AllIdle == \A q \in Procs : pc[q] = "idle"

\* The goroutine p may start a call.  The goroutines are interchangeable, so
\* when all of them are idle it is goroutine 1 that calls.
CanCall(p) ==
    /\ enabled
    /\ pc[p] = "idle"
    /\ nCalls < MaxCalls
    /\ IF AllIdle THEN p = 1 ELSE nCalls < MaxOverlapping

\* The goroutine p enters a call with the frame f at position at.
Enter(p, f, at) ==
    /\ frame' = [frame EXCEPT ![p] = f]
    /\ pc' = [pc EXCEPT ![p] = at]
    /\ nCalls' = nCalls + 1
    /\ saved' = IF f.op = "save" /\ AllIdle
                THEN [valid |-> TRUE, accounts |-> StoreValues(playerData, heap)]
                ELSE IF f.op = "reload" /\ AllIdle THEN saved
                ELSE NoSnapshot

\* The call returns res; cause names the return statement taken.  The locals
\* of the call are dead from here on.
Finish(f, res, cause) ==
    [f EXCEPT !.result = res, !.cause = cause, !.account = 0, !.toAccount = 0,
              !.stage = 0, !.creating = FALSE, !.players = <<>>, !.data = NoFile,
              !.visited = {}]

\* The position after getAccount has returned, by the calling operation.
AfterGetAccount(f) ==
    CASE f.op = "getBalance" -> "getBalanceRead"
      [] f.op = "setBalance" -> "setBalanceWrite"
      [] f.op = "addMoney" -> "addMoneyWrite"
      [] f.op = "subtractMoney" -> "subtractMoneyWrite"
      [] f.op = "transferMoney" /\ f.stage = 1 -> "getAccount"
      [] OTHER -> "transferDebit"

\* getAccount's result o stored in the caller's variable: transferMoney's
\* second call fills toAccount, every other call account.
Bind(f, o) ==
    IF f.op = "transferMoney" /\ f.stage = 2
    THEN [f EXCEPT !.toAccount = o, !.creating = FALSE]
    ELSE [f EXCEPT !.account = o, !.creating = FALSE,
                   !.stage = IF f.op = "transferMoney" THEN 2 ELSE f.stage]

\* The username the current getAccount call looks up.
Looked(f) == IF f.op = "transferMoney" /\ f.stage = 2 THEN f.to ELSE f.username

\* getBalance(username): line 202 calls getAccount.
getBalance(p) ==
    /\ CanCall(p)
    /\ \E u \in Usernames \cup DemoBalances :
          Enter(p, [IdleFrame EXCEPT !.op = "getBalance", !.username = u],
                "getAccount")
    /\ UNCHANGED <<enabled, config, playerData, heap, topPlayers, playersFile, txlog,
                   writer, readers>>

\* setBalance(username, amount): the range check of lines 207-209, made
\* before any lock is taken.
setBalance(p) ==
    /\ CanCall(p)
    /\ \E u \in Usernames, x \in Amounts :
          LET f == [IdleFrame EXCEPT !.op = "setBalance", !.username = u,
                                     !.amount = x]
          IN  IF Lt(x, 0) \/ Gt(x, config.MaxBalance)
              THEN Enter(p, Finish(f, "false", "OutOfRange"), "done")
              ELSE Enter(p, f, "getAccount")
    /\ UNCHANGED <<enabled, config, playerData, heap, topPlayers, playersFile, txlog,
                   writer, readers>>

\* addMoney(username, amount): lines 235-237.
addMoney(p) ==
    /\ CanCall(p)
    /\ \E ua \in (Usernames \X Amounts) \cup DemoCredits :
          LET u == ua[1]
              a == ua[2]
              f == [IdleFrame EXCEPT !.op = "addMoney", !.username = u,
                                     !.amount = a]
          IN  IF Le(a, 0)
              THEN Enter(p, Finish(f, "false", "InvalidAmount"), "done")
              ELSE Enter(p, f, "getAccount")
    /\ UNCHANGED <<enabled, config, playerData, heap, topPlayers, playersFile, txlog,
                   writer, readers>>

\* subtractMoney(username, amount): lines 270-272.
subtractMoney(p) ==
    /\ CanCall(p)
    /\ \E u \in Usernames, a \in Amounts :
          LET f == [IdleFrame EXCEPT !.op = "subtractMoney", !.username = u,
                                     !.amount = a]
          IN  IF Le(a, 0)
              THEN Enter(p, Finish(f, "false", "InvalidAmount"), "done")
              ELSE Enter(p, f, "getAccount")
    /\ UNCHANGED <<enabled, config, playerData, heap, topPlayers, playersFile, txlog,
                   writer, readers>>

\* transferMoney with the two names compared as they were passed, without
\* strings.ToLower.
transferMoney_ExactNames(p) ==
    /\ CanCall(p)
    /\ \E u \in Usernames, t \in Usernames, a \in Amounts :
          LET f == [IdleFrame EXCEPT !.op = "transferMoney", !.username = u,
                                     !.to = t, !.amount = a, !.stage = 1]
          IN  IF Le(a, 0)
              THEN Enter(p, Finish(f, "false", "InvalidAmount"), "done")
              ELSE IF u = t
              THEN Enter(p, Finish(f, "false", "SameAccount"), "done")
              ELSE Enter(p, f, "getAccount")
    /\ UNCHANGED <<enabled, config, playerData, heap, topPlayers, playersFile, txlog,
                   writer, readers>>

\* transferMoney(from, to, amount): lines 303-305, one return for both tests.
transferMoney(p) ==
    /\ CanCall(p)
    /\ \E u \in Usernames, t \in Usernames, a \in Amounts :
          LET f == [IdleFrame EXCEPT !.op = "transferMoney", !.username = u,
                                     !.to = t, !.amount = a, !.stage = 1]
          IN  IF Le(a, 0)
              THEN Enter(p, Finish(f, "false", "InvalidAmount"), "done")
              ELSE IF ToLower(u) = ToLower(t)
              THEN Enter(p, Finish(f, "false", "SameAccount"), "done")
              ELSE Enter(p, f, "getAccount")
    /\ UNCHANGED <<enabled, config, playerData, heap, topPlayers, playersFile, txlog,
                   writer, readers>>

\* getAccount(username), lines 188-199: the lookup under the read lock, which
\* is released before the result is used.
getAccount(p) ==
    /\ pc[p] = "getAccount"
    /\ CanRLock
    /\ LET f == frame[p]
           key == ToLower(Looked(f))
       IN  IF key \in DOMAIN playerData
           THEN /\ frame' = [frame EXCEPT ![p] = Bind(f, playerData[key])]
                /\ pc' = [pc EXCEPT ![p] = AfterGetAccount(f)]
           ELSE /\ frame' = [frame EXCEPT ![p].creating = TRUE]
                /\ pc' = [pc EXCEPT ![p] = "createAccount"]
    /\ UNCHANGED <<enabled, config, playerData, heap, topPlayers, playersFile, txlog,
                   writer, readers, nCalls, saved>>

\* createAccount(username), lines 170-182: takes the write lock, stores a new
\* account under the canonical name, and calls updateTopPlayers with the
\* write lock still held (the deferred Unlock runs when createAccount returns).
createAccount(p) ==
    /\ pc[p] = "createAccount"
    /\ CanLock
    /\ ObjIds \ DOMAIN heap # {}
    /\ LET f == frame[p]
           o == FreshIds(DOMAIN heap, 1)[1]
           account == [Username |-> Looked(f),
                       Balance |-> config.DefaultBalance,
                       TotalEarned |-> config.DefaultBalance,
                       TotalSpent |-> 0]
           f2 == IF f.op = "transferMoney" /\ f.stage = 2
                 THEN [f EXCEPT !.toAccount = o, !.created = TRUE]
                 ELSE [f EXCEPT !.account = o, !.created = TRUE]
       IN  /\ writer' = p
           /\ playerData' = MapSet(playerData, ToLower(Looked(f)), o)
           /\ frame' = [frame EXCEPT ![p] = f2]
           /\ heap' = Collect(Allocate(heap, [x \in {o} |-> account]),
                              playerData', topPlayers, frame')
           /\ pc' = [pc EXCEPT ![p] = "updateTopPlayers"]
    /\ UNCHANGED <<enabled, config, topPlayers, playersFile, txlog, readers, nCalls, saved>>

\* updateTopPlayers, lines 345-359: takes the read lock, collects the accounts
\* in the map's iteration order and bubble-sorts them.
updateTopPlayers(p) ==
    /\ pc[p] = "updateTopPlayers"
    /\ CanRLock
    /\ readers' = readers \cup {p}
    /\ \E order \in Orders(DOMAIN playerData) :
          frame' = [frame EXCEPT ![p].players =
                       BubbleSort(heap, [i \in DOMAIN order |-> playerData[order[i]]], 0)]
    /\ pc' = [pc EXCEPT ![p] = "updateTopPlayersAssign"]
    /\ UNCHANGED <<enabled, config, playerData, heap, topPlayers, playersFile, txlog,
                   writer, nCalls, saved>>

\* The frame and position of p once updateTopPlayers has returned to f's
\* caller: createAccount returns to getAccount's caller; loadPlayerData returns;
\* a mutating operation returns true.
AfterUpdate(f) ==
    IF f.creating THEN <<Bind(f, IF f.op = "transferMoney" /\ f.stage = 2
                                 THEN f.toAccount ELSE f.account),
                         AfterGetAccount(f)>>
    ELSE IF f.op = "reload" THEN <<Finish(f, "", ""), "done">>
    ELSE <<f, "enableLogging">>

\* updateTopPlayers, lines 361-366 and the deferred RUnlock; when the caller
\* is createAccount, its deferred Unlock as well.
updateTopPlayersAssign(p) ==
    /\ pc[p] = "updateTopPlayersAssign"
    /\ LET f == frame[p]
           next == AfterUpdate([f EXCEPT !.players = <<>>])
       IN  /\ topPlayers' = Truncate(f.players, config.TopPlayersLimit)
           /\ readers' = readers \ {p}
           /\ writer' = IF f.creating /\ writer = p THEN 0 ELSE writer
           /\ frame' = [frame EXCEPT ![p] = next[1]]
           /\ pc' = [pc EXCEPT ![p] = next[2]]
           /\ heap' = Collect(heap, playerData, topPlayers', frame')
    /\ UNCHANGED <<enabled, config, playerData, playersFile, txlog, nCalls, saved>>

\* getBalance, line 203: the balance is read after getAccount, with no lock.
getBalanceRead(p) ==
    /\ pc[p] = "getBalanceRead"
    /\ frame' = [frame EXCEPT ![p] =
                    Finish([frame[p] EXCEPT !.value = heap[frame[p].account].Balance],
                           "", "")]
    /\ pc' = [pc EXCEPT ![p] = "done"]
    /\ heap' = Collect(heap, playerData, topPlayers, frame')
    /\ UNCHANGED <<enabled, config, playerData, topPlayers, playersFile, txlog,
                   writer, readers, nCalls, saved>>

\* The caller takes the result; the frame and its pointers are dropped.
Return(p) ==
    /\ pc[p] = "done"
    /\ frame' = [frame EXCEPT ![p] = IdleFrame]
    /\ pc' = [pc EXCEPT ![p] = "idle"]
    /\ UNCHANGED <<enabled, config, playerData, heap, topPlayers, playersFile, txlog,
                   writer, readers, nCalls, saved>>

\* ------------------------------------------------------------- mutations

\* setBalance, lines 213-216: Lock, the write, Unlock.
setBalanceWrite(p) ==
    /\ pc[p] = "setBalanceWrite"
    /\ CanLock
    /\ heap' = [heap EXCEPT ![frame[p].account].Balance = frame[p].amount]
    /\ pc' = [pc EXCEPT ![p] = "updateTopPlayers"]
    /\ UNCHANGED <<enabled, config, playerData, topPlayers, playersFile, txlog,
                   writer, readers, frame, nCalls, saved>>

\* addMoney that writes the new balance before it tests the ceiling.
addMoneyWrite_WriteThenTest(p) ==
    /\ pc[p] = "addMoneyWrite"
    /\ CanLock
    /\ LET f == frame[p]
           newBalance == Add(heap[f.account].Balance, f.amount)
           written == [heap EXCEPT
                          ![f.account].Balance = newBalance,
                          ![f.account].TotalEarned = Add(@, f.amount)]
       IN  IF Gt(newBalance, config.MaxBalance)
           THEN /\ frame' = [frame EXCEPT ![p] = Finish(f, "false", "ExceedsMaxBalance")]
                /\ pc' = [pc EXCEPT ![p] = "done"]
                /\ heap' = Collect(written, playerData, topPlayers, frame')
           ELSE /\ heap' = written
                /\ pc' = [pc EXCEPT ![p] = "updateTopPlayers"]
                /\ frame' = frame
    /\ UNCHANGED <<enabled, config, playerData, topPlayers, playersFile, txlog,
                   writer, readers, nCalls, saved>>

\* addMoney, lines 241-251: Lock, the ceiling test, the writes, Unlock.
addMoneyWrite(p) ==
    /\ pc[p] = "addMoneyWrite"
    /\ CanLock
    /\ LET f == frame[p]
           newBalance == Add(heap[f.account].Balance, f.amount)
       IN  IF Gt(newBalance, config.MaxBalance)
           THEN /\ frame' = [frame EXCEPT ![p] = Finish(f, "false", "ExceedsMaxBalance")]
                /\ pc' = [pc EXCEPT ![p] = "done"]
                /\ heap' = Collect(heap, playerData, topPlayers, frame')
           ELSE /\ heap' = [heap EXCEPT
                              ![f.account].Balance = newBalance,
                              ![f.account].TotalEarned = Add(@, f.amount)]
                /\ pc' = [pc EXCEPT ![p] = "updateTopPlayers"]
                /\ frame' = frame
    /\ UNCHANGED <<enabled, config, playerData, topPlayers, playersFile, txlog,
                   writer, readers, nCalls, saved>>

\* subtractMoney, lines 276-284: Lock, the funds test, the writes, Unlock.
subtractMoneyWrite(p) ==
    /\ pc[p] = "subtractMoneyWrite"
    /\ CanLock
    /\ LET f == frame[p]
       IN  IF Lt(heap[f.account].Balance, f.amount)
           THEN /\ frame' = [frame EXCEPT ![p] = Finish(f, "false", "InsufficientFunds")]
                /\ pc' = [pc EXCEPT ![p] = "done"]
                /\ heap' = Collect(heap, playerData, topPlayers, frame')
           ELSE /\ heap' = [heap EXCEPT
                              ![f.account].Balance = Sub(@, f.amount),
                              ![f.account].TotalSpent = Add(@, f.amount)]
                /\ pc' = [pc EXCEPT ![p] = "updateTopPlayers"]
                /\ frame' = frame
    /\ UNCHANGED <<enabled, config, playerData, topPlayers, playersFile, txlog,
                   writer, readers, nCalls, saved>>

\* transferMoney, lines 310-322: Lock, both tests, and the source's leg; the
\* write lock stays held.
transferDebit(p) ==
    /\ pc[p] = "transferDebit"
    /\ CanLock
    /\ LET f == frame[p]
       IN  IF Lt(heap[f.account].Balance, f.amount)
           THEN /\ frame' = [frame EXCEPT ![p] = Finish(f, "false", "InsufficientFunds")]
                /\ pc' = [pc EXCEPT ![p] = "done"]
                /\ heap' = Collect(heap, playerData, topPlayers, frame')
                /\ writer' = writer
           ELSE IF Gt(Add(heap[f.toAccount].Balance, f.amount), config.MaxBalance)
           THEN /\ frame' = [frame EXCEPT ![p] = Finish(f, "false", "ExceedsMaxBalance")]
                /\ pc' = [pc EXCEPT ![p] = "done"]
                /\ heap' = Collect(heap, playerData, topPlayers, frame')
                /\ writer' = writer
           ELSE /\ heap' = [heap EXCEPT
                              ![f.account].Balance = Sub(@, f.amount),
                              ![f.account].TotalSpent = Add(@, f.amount)]
                /\ writer' = p
                /\ pc' = [pc EXCEPT ![p] = "transferCredit"]
                /\ frame' = frame
    /\ UNCHANGED <<enabled, config, playerData, topPlayers, playersFile, txlog,
                   readers, nCalls, saved>>

\* transferMoney, lines 323-325: the destination's leg, then Unlock.
transferCredit(p) ==
    /\ pc[p] = "transferCredit"
    /\ LET f == frame[p]
       IN  heap' = [heap EXCEPT
                       ![f.toAccount].Balance = Add(@, f.amount),
                       ![f.toAccount].TotalEarned = Add(@, f.amount)]
    /\ writer' = 0
    /\ pc' = [pc EXCEPT ![p] = "updateTopPlayers"]
    /\ UNCHANGED <<enabled, config, playerData, topPlayers, playersFile, txlog,
                   readers, frame, nCalls, saved>>

\* The Transaction a mutating operation builds for the log.
Transaction(f) ==
    CASE f.op = "setBalance" ->
            [From |-> "", To |-> f.username, Amount |-> f.amount, Type |-> SET]
      [] f.op = "addMoney" ->
            [From |-> "", To |-> f.username, Amount |-> f.amount, Type |-> ADD]
      [] f.op = "subtractMoney" ->
            [From |-> f.username, To |-> "", Amount |-> f.amount, Type |-> SUBTRACT]
      [] OTHER ->
            [From |-> f.username, To |-> f.to, Amount |-> f.amount, Type |-> TRANSFER]

\* The test "if e.config.EnableLogging" after updateTopPlayers has returned
\* (lines 220, 255, 288, 329); without logging the operation returns true.
enableLogging(p) ==
    /\ pc[p] = "enableLogging"
    /\ IF config.EnableLogging
       THEN /\ pc' = [pc EXCEPT ![p] = "logTransaction"]
            /\ UNCHANGED <<frame, heap>>
       ELSE /\ frame' = [frame EXCEPT ![p] = Finish(frame[p], "true", "ok")]
            /\ pc' = [pc EXCEPT ![p] = "done"]
            /\ heap' = Collect(heap, playerData, topPlayers, frame')
    /\ UNCHANGED <<enabled, config, playerData, topPlayers, playersFile, txlog,
                   writer, readers, nCalls, saved>>

\* logTransaction, lines 370-388: one line appended to transactions.log, with
\* no lock; then the operation returns true.
logTransaction(p) ==
    /\ pc[p] = "logTransaction"
    /\ txlog' = Append(txlog, Transaction(frame[p]))
    /\ frame' = [frame EXCEPT ![p] = Finish(frame[p], "true", "ok")]
    /\ pc' = [pc EXCEPT ![p] = "done"]
    /\ heap' = Collect(heap, playerData, topPlayers, frame')
    /\ UNCHANGED <<enabled, config, playerData, topPlayers, playersFile,
                   writer, readers, nCalls, saved>>

\* ------------------------------------------------------------- commands

\* economyCommand "reload", line 488: loadConfig, with no lock.
reload(p) ==
    /\ CanCall(p)
    /\ \E file \in ConfigFiles : config' = loadConfig(config, file)
    /\ Enter(p, [IdleFrame EXCEPT !.op = "reload"], "loadPlayerData")
    /\ UNCHANGED <<enabled, playerData, heap, topPlayers, playersFile, txlog,
                   writer, readers>>

\* loadPlayerData, lines 133-147, with no lock: returns when players.json does
\* not exist, else unmarshals it into the map and goes on to updateTopPlayers.
loadPlayerData(p) ==
    /\ pc[p] = "loadPlayerData"
    /\ IF playersFile.exists
       THEN LET doc == playersFile.accounts
                ids == FreshIds(DOMAIN heap, Cardinality(DOMAIN doc))
            IN  /\ Cardinality(ObjIds \ DOMAIN heap) >= Cardinality(DOMAIN doc)
                /\ playerData' = Unmarshal(playerData, ids, doc)
                /\ heap' = Collect(Allocate(heap, Unmarshalled(ids, doc)),
                                   playerData', topPlayers, frame)
                /\ pc' = [pc EXCEPT ![p] = "updateTopPlayers"]
                /\ frame' = frame
       ELSE /\ frame' = [frame EXCEPT ![p] = Finish(frame[p], "", "")]
            /\ pc' = [pc EXCEPT ![p] = "done"]
            /\ UNCHANGED <<playerData, heap>>
    /\ UNCHANGED <<enabled, config, topPlayers, playersFile, txlog, writer,
                   readers, nCalls, saved>>

\* economyCommand "save", line 493.
save(p) ==
    /\ CanCall(p)
    /\ Enter(p, [IdleFrame EXCEPT !.op = "save"], "savePlayerData")
    /\ UNCHANGED <<enabled, config, playerData, heap, topPlayers, playersFile, txlog,
                   writer, readers>>

\* savePlayerData that marshals the map without taking the read lock.
savePlayerData_NoReadLock(p) ==
    /\ pc[p] = "savePlayerData"
    /\ IF MarshalFails(playerData, heap)
       THEN /\ frame' = [frame EXCEPT ![p] = Finish(frame[p], "", "MarshalError")]
            /\ pc' = [pc EXCEPT ![p] = "done"]
       ELSE /\ frame' = [frame EXCEPT ![p].data = Marshal(playerData, heap)]
            /\ pc' = [pc EXCEPT ![p] = "savePlayerDataWrite"]
    /\ UNCHANGED <<enabled, config, playerData, heap, topPlayers, playersFile, txlog,
                   writer, readers, nCalls, saved>>

\* savePlayerData, lines 155-162: RLock and MarshalIndent; a marshal error
\* returns (running the deferred RUnlock) without writing.
savePlayerData(p) ==
    /\ pc[p] = "savePlayerData"
    /\ CanRLock
    /\ IF MarshalFails(playerData, heap)
       THEN /\ frame' = [frame EXCEPT ![p] = Finish(frame[p], "", "MarshalError")]
            /\ pc' = [pc EXCEPT ![p] = "done"]
            /\ readers' = readers
       ELSE /\ frame' = [frame EXCEPT ![p].data = Marshal(playerData, heap)]
            /\ pc' = [pc EXCEPT ![p] = "savePlayerDataWrite"]
            /\ readers' = readers \cup {p}
    /\ UNCHANGED <<enabled, config, playerData, heap, topPlayers, playersFile, txlog,
                   writer, nCalls, saved>>

\* savePlayerData, lines 164-166: WriteFile with the read lock held, then the
\* deferred RUnlock.
savePlayerDataWrite(p) ==
    /\ pc[p] = "savePlayerDataWrite"
    /\ playersFile' = frame[p].data
    /\ readers' = readers \ {p}
    /\ frame' = [frame EXCEPT ![p] = Finish([frame[p] EXCEPT !.data = NoFile], "", "")]
    /\ pc' = [pc EXCEPT ![p] = "done"]
    /\ UNCHANGED <<enabled, config, playerData, heap, topPlayers, txlog, writer,
                   nCalls, saved>>

\* economyCommand "stats", line 497.
stats(p) ==
    /\ CanCall(p)
    /\ Enter(p, [IdleFrame EXCEPT !.op = "stats"], "stats")
    /\ UNCHANGED <<enabled, config, playerData, heap, topPlayers, playersFile, txlog,
                   writer, readers>>

\* economyCommand "stats", lines 498-500: one iteration of the range over the
\* map, reading one account's balance with no lock.
statsRead(p) ==
    /\ pc[p] = "stats"
    /\ \E k \in (DOMAIN playerData) \ frame[p].visited :
          frame' = [frame EXCEPT
                       ![p].visited = @ \cup {k},
                       ![p].value = Add(@, heap[playerData[k]].Balance)]
    /\ UNCHANGED <<enabled, config, playerData, heap, topPlayers, playersFile, txlog,
                   writer, readers, pc, nCalls, saved>>

\* economyCommand "stats", lines 501-502: the range is over; the total is
\* returned.
statsReturn(p) ==
    /\ pc[p] = "stats"
    /\ (DOMAIN playerData) \subseteq frame[p].visited
    /\ frame' = [frame EXCEPT ![p] = Finish([frame[p] EXCEPT !.visited = {}], "", "")]
    /\ pc' = [pc EXCEPT ![p] = "done"]
    /\ UNCHANGED <<enabled, config, playerData, heap, topPlayers, playersFile, txlog,
                   writer, readers, nCalls, saved>>

\* The ranking as topCommand prints it: each entry's username and current
\* balance, read through the pointers of e.topPlayers.
TopN == [i \in DOMAIN topPlayers |->
            <<heap[topPlayers[i]].Username, heap[topPlayers[i]].Balance>>]

\* topCommand, lines 510-519, with no lock.
topCommand(p) ==
    /\ CanCall(p)
    /\ Enter(p, Finish([IdleFrame EXCEPT !.op = "top", !.top = TopN], "", ""), "done")
    /\ UNCHANGED <<enabled, config, playerData, heap, topPlayers, playersFile, txlog,
                   writer, readers>>

\* ------------------------------------------------------------- behaviours

Step(p) ==
    \/ getBalance(p) \/ setBalance(p) \/ addMoney(p) \/ subtractMoney(p)
    \/ transferMoney(p) \/ reload(p) \/ save(p) \/ stats(p) \/ topCommand(p)
    \/ getAccount(p) \/ createAccount(p)
    \/ updateTopPlayers(p) \/ updateTopPlayersAssign(p)
    \/ getBalanceRead(p) \/ setBalanceWrite(p) \/ addMoneyWrite(p)
    \/ subtractMoneyWrite(p) \/ transferDebit(p) \/ transferCredit(p)
    \/ enableLogging(p) \/ logTransaction(p)
    \/ loadPlayerData(p) \/ savePlayerData(p) \/ savePlayerDataWrite(p)
    \/ statsRead(p) \/ statsReturn(p) \/ Return(p)

Next == OnEnable \/ \E p \in Procs : Step(p)

Spec == Init /\ [][Next]_vars

\* ------------------------------------------------------------- claims

\* The balance the store holds for the canonical username k.
Balance(k) == heap[playerData[k]].Balance

TotalEarned(k) == heap[playerData[k]].TotalEarned

TotalSpent(k) == heap[playerData[k]].TotalSpent

\* The goroutine p holds e.mutex, in either mode.
Holds(p) == writer = p \/ p \in readers

\* C1: every invocation of a ledger operation returns, also for a username
\* that has no account yet; none blocks forever on the reader/writer lock.
\* Stated on single states: a call in flight can take its next step, or it
\* waits for the lock while another goroutine, which can take a step, holds it.
C1_EveryInvocationReturns ==
    \A p \in Procs :
        pc[p] \notin {"idle", "done"} =>
            \/ ENABLED Step(p)
            \/ \E q \in Procs \ {p} : Holds(q) /\ ENABLED Step(q)

\* C2: in every reachable state every account of the store has
\* 0 <= balance <= maxBalance, for the configured maxBalance.
C2_BalanceWithinBounds ==
    \A k \in DOMAIN playerData :
        Le(0, Balance(k)) /\ Le(Balance(k), config.MaxBalance)

\* The transfer of p has written the source's leg and not yet the
\* destination's.
OneLegApplied(p) == pc[p] = "transferCredit"

\* The step of q reads the balance of the account object o: getBalance's
\* return, one iteration of stats, the ranking printed by top, the snapshot
\* taken by save.
ReadsBalance(q, o) ==
    \/ getBalanceRead(q) /\ frame[q].account = o
    \/ statsRead(q) /\ \E k \in DOMAIN playerData :
                          /\ playerData[k] = o
                          /\ k \in frame'[q].visited \ frame[q].visited
    \/ topCommand(q) /\ o \in Range(topPlayers)
    \/ savePlayerData(q) /\ o \in Range(playerData)

\* C3: a transfer applies both legs or neither, and no other operation (a
\* balance read, the stats total, a save, a ranking read) reads a balance of
\* the transfer while only one of its two legs has been applied.
C3_TransferAllOrNothing ==
    [][\A p \in Procs :
          /\ transferDebit(p) =>
                \/ pc'[p] = "transferCredit"
                \/ StoreValues(playerData, heap)' = StoreValues(playerData, heap)
          /\ OneLegApplied(p) =>
                \A q \in Procs \ {p} :
                    /\ ~ReadsBalance(q, frame[p].account)
                    /\ ~ReadsBalance(q, frame[p].toAccount)]_vars

\* N = NumProcs goroutines have each called credit("Bob", 10) on a store that
\* was enabled without players.json and with the default configuration, and
\* nothing else has been called.
ConcurrentCredits ==
    /\ ~playersFile.exists
    /\ config = DefaultConfig
    /\ nCalls = NumProcs
    /\ \A p \in Procs :
          /\ pc[p] # "idle"
          /\ frame[p].op = "addMoney"
          /\ frame[p].username = "Bob"
          /\ frame[p].amount = 10

\* C4: N concurrent credit(u, 10) calls against a username with no account,
\* defaultBalance 1000, all succeed and leave balance(u) = 1000 + 10 * N.
\* Stated on the states where the N calls can go no further: all of them have
\* returned true and the balance is 1000 + 10 * N.
C4_ConcurrentCreditsConverge ==
    (ConcurrentCredits /\ \A p \in Procs : pc[p] = "done" \/ ~ENABLED Step(p)) =>
        /\ \A p \in Procs : pc[p] = "done" /\ frame[p].result = "true"
        /\ "bob" \in DOMAIN playerData
        /\ Balance("bob") = 1000 + 10 * NumProcs

\* C5: for a > 0, credit(u, a) with balance(u) + a <= maxBalance succeeds and
\* raises balance(u) and totalEarned(u) by exactly a; with balance(u) + a >
\* maxBalance it fails and balance(u) is unchanged.  Stated on the step that
\* decides the credit, for the balance the store holds for u.
C5_CreditExact ==
    [][\A p \in Procs :
          addMoneyWrite(p) =>
              LET k == ToLower(frame[p].username)
                  a == frame[p].amount
              IN  /\ (Gt(a, 0) /\ Le(Add(Balance(k), a), config.MaxBalance)) =>
                        /\ pc'[p] = "updateTopPlayers"
                        /\ Balance(k)' = Balance(k) + a
                        /\ TotalEarned(k)' = TotalEarned(k) + a
                  /\ (Gt(a, 0) /\ Gt(Add(Balance(k), a), config.MaxBalance)) =>
                        /\ frame'[p].result = "false"
                        /\ Balance(k)' = Balance(k)]_vars

\* C6: debit(u, a) with a > balance(u) fails with InsufficientFunds and leaves
\* balance(u) and totalSpent(u) unchanged; with 0 < a <= balance(u) it
\* succeeds, lowers balance(u) by exactly a and raises totalSpent(u) by
\* exactly a.  Stated on the step that decides the debit.
C6_DebitExact ==
    [][\A p \in Procs :
          subtractMoneyWrite(p) =>
              LET k == ToLower(frame[p].username)
                  a == frame[p].amount
              IN  /\ Gt(a, Balance(k)) =>
                        /\ frame'[p].result = "false"
                        /\ frame'[p].cause = "InsufficientFunds"
                        /\ Balance(k)' = Balance(k)
                        /\ TotalSpent(k)' = TotalSpent(k)
                  /\ (Gt(a, 0) /\ Le(a, Balance(k))) =>
                        /\ pc'[p] = "updateTopPlayers"
                        /\ Balance(k)' = Balance(k) - a
                        /\ TotalSpent(k)' = TotalSpent(k) + a]_vars

\* x lies in [0, m].
InRange(x, m) == Le(0, x) /\ Le(x, m)

\* C7: setBalance(u, x) succeeds exactly when 0 <= x <= maxBalance, and then
\* balance(u) = x; for every other x it fails and leaves balance(u) unchanged.
\* Stated on the steps of setBalance: it returns false at its range check
\* only for an x outside the range, and it writes a balance only for an x in
\* the range, leaving the store's balance for u at x.
C7_SetBalanceInRange ==
    [][\A p \in Procs :
          /\ (setBalance(p) /\ pc'[p] = "done") =>
                /\ ~InRange(frame'[p].amount, config.MaxBalance)
                /\ frame'[p].result = "false"
          /\ setBalanceWrite(p) =>
                /\ InRange(frame[p].amount, config.MaxBalance)
                /\ Balance(ToLower(frame[p].username))' = frame[p].amount]_vars

\* The goroutine p has returned from a transfer.
TransferReturned(p) == pc[p] = "done" /\ frame[p].op = "transferMoney"

Quiescent == \A p \in Procs : pc[p] \in {"idle", "done"}

\* C9: after any sequence of ledger operations TopN() has length
\* min(topPlayersLimit, accountCount), for the current limit and the current
\* number of accounts, and its entries are in non-increasing order of their
\* current balances.
C9_TopNLengthAndOrder ==
    (enabled /\ Quiescent) =>
        /\ Len(TopN) = Min(config.TopPlayersLimit, Cardinality(DOMAIN playerData))
        /\ \A i \in 1..(Len(TopN) - 1) : Ge(TopN[i][2], TopN[i + 1][2])

\* C10: a save followed by a reload, with no other operation in between,
\* leaves the same set of accounts, each with the balance, totalEarned and
\* totalSpent it had before the save.
C10_SaveLoadRoundTrip ==
    \A p \in Procs :
        (pc[p] = "done" /\ frame[p].op = "reload" /\ saved.valid) =>
            StoreValues(playerData, heap) = saved.accounts

\* The amounts a players.json document holds for each canonical username.
DocValues(doc) ==
    [k \in DOMAIN doc |->
        [Balance |-> doc[k].Balance, TotalEarned |-> doc[k].TotalEarned,
         TotalSpent |-> doc[k].TotalSpent]]

\* C11 (as stated): after loadAccounts has read an existing document, the
\* account map is exactly the document's: every account of the document with
\* the document's values, and no account that is not in the document.
C11_LoadReplacesStore ==
    [][\A p \in Procs :
          (loadPlayerData(p) /\ playersFile.exists) =>
              StoreValues(playerData, heap)' = DocValues(playersFile.accounts)]_vars

\* C11 (amended): after loadAccounts has read an existing document, the map
\* holds every account of the document with the document's values, and an
\* account that was in memory and is not in the document is still in the
\* store, the same object with the values it had.
C11_LoadMergesIntoStore ==
    [][\A p \in Procs :
          (loadPlayerData(p) /\ playersFile.exists) =>
              LET doc == playersFile.accounts
              IN  /\ DOMAIN playerData' = (DOMAIN playerData) \cup (DOMAIN doc)
                  /\ \A k \in DOMAIN doc :
                        StoreValues(playerData, heap)'[k] = DocValues(doc)[k]
                  /\ \A k \in (DOMAIN playerData) \ (DOMAIN doc) :
                        /\ playerData'[k] = playerData[k]
                        /\ StoreValues(playerData, heap)'[k]
                               = StoreValues(playerData, heap)[k]]_vars

\* C11 witness: a reload has unmarshalled a document that names alice and not
\* bob into a map that held both; alice has the document's values and bob is
\* still in the store.
C11_LoadedOverUnsavedAccount ==
    \E p \in Procs :
        /\ frame[p].op = "reload" /\ pc[p] = "updateTopPlayers"
        /\ playersFile.exists
        /\ DOMAIN playersFile.accounts = {"alice"}
        /\ DOMAIN playerData = {"alice", "bob"}
        /\ StoreValues(playerData, heap)["alice"]
               = DocValues(playersFile.accounts)["alice"]

\* C12: accounts are never deleted: a canonical username that is in the
\* account map is in it in every later state.
C12_AccountsNeverDeleted ==
    [][DOMAIN playerData \subseteq DOMAIN playerData']_vars

\* C12 witness: a reload has unmarshalled a document that does not name an
\* account the map held, and the map still holds that account.
C12_ReloadKeptUnsavedAccount ==
    \E p \in Procs :
        /\ frame[p].op = "reload" /\ pc[p] = "updateTopPlayers"
        /\ playersFile.exists
        /\ (DOMAIN playerData) \ (DOMAIN playersFile.accounts) # {}

\* C13: totalEarned and totalSpent never decrease: no step takes the
\* totalEarned or the totalSpent stored for a username to a smaller value.
C13_TotalsNeverDecrease ==
    [][\A k \in (DOMAIN playerData) \cap (DOMAIN playerData') :
          /\ ~Lt(TotalEarned(k)', TotalEarned(k))
          /\ ~Lt(TotalSpent(k)', TotalSpent(k))]_vars

\* The kind of record each mutating operation is to leave in the log.
KindOf(op) ==
    CASE op = "setBalance" -> SET
      [] op = "addMoney" -> ADD
      [] op = "subtractMoney" -> SUBTRACT
      [] OTHER -> TRANSFER

\* The step appends one record to the log.
Appends == Len(txlog') = Len(txlog) + 1 /\ SubSeq(txlog', 1, Len(txlog)) = txlog

\* C14: with enableLogging true every successful set, credit, debit or
\* transfer appends exactly one record of the matching kind, after its balance
\* change; a failing operation appends none; no record is appended while
\* enableLogging is false; records in the log are never changed or removed.
C14_LogMatchesSuccesses ==
    [][/\ txlog' = txlog \/ Appends
       /\ Appends => config.EnableLogging
       /\ \A p \in Procs :
             /\ (pc[p] # "done" /\ pc'[p] = "done" /\ frame'[p].result = "true"
                 /\ config.EnableLogging) =>
                   /\ Appends
                   /\ txlog'[Len(txlog')].Type = KindOf(frame[p].op)
                   /\ txlog'[Len(txlog')].Amount = frame[p].amount
             /\ (pc[p] # "done" /\ pc'[p] = "done" /\ frame'[p].result # "true") =>
                   txlog' = txlog]_vars

\* The call of p is over: it has returned, or it can take no further step.
RunOver(p) == pc[p] = "done" \/ ~ENABLED Step(p)

\* The goroutine p is in, or has returned from, the call credit(u, a), and no
\* other goroutine is in a call.
OnlyCredit(p, u, a) ==
    /\ pc[p] # "idle"
    /\ frame[p].op = "addMoney" /\ frame[p].username = u /\ frame[p].amount = a
    /\ \A q \in Procs \ {p} : pc[q] = "idle"

\* C15: starting from an empty store with defaultBalance 1000 and
\* topPlayersLimit 10, after credit("TestPlayer", 500) the balance of
\* TestPlayer is 1500; after credit("Player2", 2000) the balance of Player2 is
\* 3000, TopN() is [Player2: 3000, TestPlayer: 1500] and the balances total
\* 4500 over 2 accounts.  Stated on the states where each of the two credits
\* is over.
C15_DemoScenario ==
    (enabled /\ ~playersFile.exists /\ config = DefaultConfig) =>
        \A p \in Procs :
            /\ (nCalls = 1 /\ OnlyCredit(p, "TestPlayer", 500) /\ RunOver(p)) =>
                  /\ pc[p] = "done" /\ frame[p].result = "true"
                  /\ DOMAIN playerData = {"testplayer"}
                  /\ Balance("testplayer") = 1500
            /\ (/\ nCalls = 2 /\ OnlyCredit(p, "Player2", 2000) /\ RunOver(p)
                /\ Len(txlog) >= 1
                /\ txlog[1] = [From |-> "", To |-> "TestPlayer", Amount |-> 500,
                               Type |-> ADD]) =>
                  /\ pc[p] = "done" /\ frame[p].result = "true"
                  /\ DOMAIN playerData = {"testplayer", "player2"}
                  /\ Balance("player2") = 3000
                  /\ TopN = <<<<"Player2", 3000>>, <<"TestPlayer", 1500>>>>
                  /\ Balance("testplayer") + Balance("player2") = 4500

\* The canonical username the getAccount call of p looks up.
LookedKey(p) == ToLower(Looked(frame[p]))

\* The lookup of p found no account and p has not yet been handed one.
Missed(p) == pc[p] # "idle" /\ frame[p].creating

\* C16: getOrCreate is one atomic lookup-or-insert.  A caller that is about
\* to insert an account finds no account under that username, so no account
\* is overwritten and at most one is inserted; two callers whose lookups of
\* the same username both found no account are both handed an account, so
\* they are never both at rest without one; and two callers that were handed
\* accounts for the same username, with no other call made, hold the same one.
C16_LookupOrInsertAtomic ==
    /\ \A p \in Procs :
          (pc[p] = "createAccount" /\ CanLock) =>
              LookedKey(p) \notin DOMAIN playerData
    /\ \A p, q \in Procs :
          (p # q /\ Missed(p) /\ Missed(q) /\ LookedKey(p) = LookedKey(q)) =>
              ~(RunOver(p) /\ RunOver(q))
    /\ \A p, q \in Procs :
          (/\ p # q /\ nCalls = 2
           /\ frame[p].op \in {"getBalance", "setBalance", "addMoney", "subtractMoney"}
           /\ frame[q].op \in {"getBalance", "setBalance", "addMoney", "subtractMoney"}
           /\ ToLower(frame[p].username) = ToLower(frame[q].username)
           /\ frame[p].account # 0 /\ frame[q].account # 0
           /\ ~frame[p].creating /\ ~frame[q].creating) =>
              frame[p].account = frame[q].account

\* The step writes the account map or the balance of an account.
WritesStore ==
    \/ playerData' # playerData
    \/ \E o \in (DOMAIN heap) \cap (DOMAIN heap') : heap'[o].Balance # heap[o].Balance

\* The steps of p that are taken with e.mutex held for writing.
WritesUnderLock(p) ==
    \/ createAccount(p) \/ setBalanceWrite(p) \/ addMoneyWrite(p)
    \/ subtractMoneyWrite(p) \/ transferDebit(p) \/ transferCredit(p)

\* C17: every write to the account map or to a balance, the load of a reload
\* included, is made by a caller that holds the write lock, and never while
\* another caller is reading (under the read lock, or in the stats loop) or
\* writing.
C17_WritesHoldWriteLock ==
    [][\A p \in Procs :
          (Step(p) /\ WritesStore) =>
              /\ WritesUnderLock(p)
              /\ \A q \in Procs \ {p} : ~Holds(q) /\ pc[q] # "stats"]_vars

\* C18: no caller holds the lock, for reading or for writing, in the step in
\* which it appends to the transaction log or writes the accounts document.
C18_NoDiskWriteUnderLock ==
    [][\A p \in Procs :
          (Step(p) /\ (txlog' # txlog \/ playersFile' # playersFile)) =>
              ~Holds(p)]_vars

\* The operations that change balances.
Mutations == {"setBalance", "addMoney", "subtractMoney", "transferMoney"}

\* The step in which p returns from a mutation with failure.
ReturnsFailure(p) ==
    /\ pc[p] # "done" /\ pc'[p] = "done"
    /\ frame'[p].op \in Mutations
    /\ frame'[p].result = "false"

\* C19: a set, credit, debit or transfer that returns failure leaves the
\* store unchanged: it has created no account, and its steps (the tests at
\* its call, its lookups, the step that decides the failure) leave the set of
\* accounts and every balance, totalEarned and totalSpent as they were.
C19_FailureLeavesStoreUnchanged ==
    [][\A p \in Procs :
          /\ ReturnsFailure(p) =>
                /\ ~frame'[p].created
                /\ StoreValues(playerData, heap)' = StoreValues(playerData, heap)
          /\ (\/ setBalance(p) \/ addMoney(p) \/ subtractMoney(p)
              \/ transferMoney(p) \/ getAccount(p)) =>
                StoreValues(playerData, heap)' = StoreValues(playerData, heap)]_vars

\* C19 witness: a credit and a transfer have each returned failure from
\* their test under the write lock.
C19_FailedUnderLock ==
    \E p, q \in Procs :
        /\ pc[p] = "done" /\ frame[p].op = "addMoney"
        /\ frame[p].result = "false" /\ frame[p].cause = "ExceedsMaxBalance"
        /\ pc[q] = "done" /\ frame[q].op = "transferMoney"
        /\ frame[q].result = "false" /\ frame[q].cause = "InsufficientFunds"

\* C20: the document saveAccounts writes is the account map as it stood at
\* one instant, the one at which it was marshalled: at that instant no
\* transfer has one leg applied and not the other, the document holds every
\* account with the balance, totalEarned and totalSpent of that instant, and
\* that document is what is written to players.json.
C20_SaveWritesOneInstant ==
    [][\A p \in Procs :
          /\ (savePlayerData(p) /\ pc'[p] = "savePlayerDataWrite") =>
                /\ \A q \in Procs \ {p} : ~OneLegApplied(q)
                /\ DocValues(frame'[p].data.accounts) = StoreValues(playerData, heap)
          /\ savePlayerDataWrite(p) =>
                /\ playersFile' = frame[p].data
                /\ \A q \in Procs \ {p} : ~OneLegApplied(q)]_vars

\* C20 witness: a save holds the marshalled document and the read lock while
\* a transfer that has looked up both accounts waits for the write lock.
C20_SaveDuringTransfer ==
    \E p, q \in Procs :
        /\ pc[p] = "savePlayerDataWrite" /\ p \in readers
        /\ frame[q].op = "transferMoney" /\ pc[q] = "transferDebit"

====
